---- MODULE Spec2Model ----
\* Kova Core: the blockchain manager (src/src/blockchain/manager.rs) with its
\* three clients (solana.rs, ipfs.rs, arweave.rs), as a state machine of
\* concurrent async callers sharing one BlockchainManager.
EXTENDS Integers, Sequences, FiniteSets, TLC

\* ---------------------------------------------------------------- bounds
\* Number of concurrent callers (tasks) of one BlockchainManager.
MaxTasks == 2
\* Number of distinct registry keys passed to add_client.
MaxNames == 2
\* Number of distinct raw byte payloads handed to store_data.
MaxPayloads == 1
\* Number of manager calls started in one run.
MaxCalls == 3

Tasks == 1..MaxTasks
\* The keys (String) under which clients are registered.
Names == {<<"name", i>> : i \in 1..MaxNames}

\* ---------------------------------------------------------------- values
\* A raw payload (&[u8]), tagged so that it never equals a serialized one.
RawPayloads == {<<"bytes", i>> : i \in 1..MaxPayloads}

\* sha2::Sha256::digest, hex::encode, base64::encode: injective encodings.
Sha256(data) == <<"sha256", data>>
HexEncode(h) == <<"hex", h>>
Base64Encode(h) == <<"base64", h>>

\* SolanaClient::store_data: format!("solana:{}", hex(sha256(data))).
SolanaHash(data) == <<"solana:", HexEncode(Sha256(data))>>
\* ArweaveClient::generate_transaction_id: base64(sha256(data)).
ArweaveTxId(data) == Base64Encode(Sha256(data))
\* The "Hash" field of the IPFS node's /api/v0/add response.
IpfsCid(data) == <<"Qm", data>>

\* struct Contribution: the records submitted for the first raw payload, by
\* one sensor or by another.
Contributions ==
  {[sensor_data_hash |-> SolanaHash(<<"bytes", 1>>), validator_signature |-> "sig",
    timestamp |-> 0, quality_score |-> 1, validator_id |-> "validator",
    sensor_id |-> id] : id \in {"sensor", "sensor-2"}}

\* serde_json::to_vec(contribution): the fields in declaration order.
to_vec(c) ==
  <<"json", << <<"sensor_data_hash", c.sensor_data_hash>>,
               <<"validator_signature", c.validator_signature>>,
               <<"timestamp", c.timestamp>>,
               <<"quality_score", c.quality_score>>,
               <<"validator_id", c.validator_id>>,
               <<"sensor_id", c.sensor_id>> >> >>

\* An id no backend holds data for ("QmTestHash" of the unit tests).
TestHash == IpfsCid(<<"bytes", 0>>)

\* The clients a caller can register: the three BlockchainClient impls
\* (IPFSConfig::default has pin_on_add = true).
SolanaClient == [kind |-> "Solana", pin_on_add |-> FALSE]
IPFSClient == [kind |-> "IPFS", pin_on_add |-> TRUE]
ArweaveClient == [kind |-> "Arweave", pin_on_add |-> FALSE]
Clients == {SolanaClient, IPFSClient, ArweaveClient}

\* Error::blockchain(msg)
ErrBlockchain(msg) == <<"Err", <<"Blockchain", msg>>>>
Ok(v) == <<"Ok", v>>
NoAvailableClients == ErrBlockchain("No available blockchain clients")
\* The body a gateway answers for an id it does not hold.
NotFoundBody == <<"body", "not found">>

NoCall == [op |-> "none", arg |-> <<"none">>, data |-> <<"none">>]
NoRet == <<"none">>
NoLast == <<"none">>
NoSnap == <<"none">>
\* No data-collection loop is running.
NoPipe == [pc |-> "none"]

VARIABLES
  clients,      \* BlockchainManager.clients: name -> client
  iterOrder,    \* the order in which clients.iter() yields the keys
  registered,   \* history: the names in the order add_client first saw them
  readers,      \* tasks holding a read guard of the RwLock
  writer,       \* the task holding the write guard: {} or {t}
  waiters,      \* FIFO queue of the RwLock: <<task, "read" | "write">>
  pc,           \* per task: position in its current manager call
  call,         \* per task: the call in progress [op, arg, data]
  idx,          \* per task: position of the for loop in iterOrder
  trace,        \* per task: the client calls made by the current call
  inner,        \* per task: the store_data invocations made by the call
  ret,          \* per task: what the call returned
  snap,         \* per task: the registry when the guard was acquired
  last,         \* the latest store_data that returned Ok: <<data, id, registry>>
  follows,      \* per task: the store_data a retrieve_data of its id follows
  calls,        \* the number of manager calls started so far
  issued,       \* the ids store_data has returned so far
  ipfsStore,    \* payloads the IPFS node holds
  arweaveStore, \* payloads the Arweave gateway holds
  submitted,    \* history: the store_data calls submit_contribution made on
                \* the clients: <<contribution, client kind, payload, result>>
  validations,  \* the two latest DataValidator calls, with their results
  pipe,         \* the data-collection loop of the examples' main
  sensor,       \* a sensor (Camera, LiDAR, IMU, GPS or Thermal), once constructed
  sensorLog,    \* history: the calls made on the sensor, with their results
  network,      \* a NetworkManager, once constructed
  netQueue,     \* the NetworkManager calls waiting for the write guard, in order
  netLast       \* the latest NetworkManager call that ran, with its result

vars == <<clients, iterOrder, registered, readers, writer, waiters, pc, call,
          idx, trace, inner, ret, snap, last, follows, calls, issued, ipfsStore, arweaveStore,
          submitted, validations, pipe, sensor, sensorLog, network, netQueue, netLast>>

lockVars == <<readers, writer, waiters>>
storeVars == <<ipfsStore, arweaveStore, submitted>>
registryVars == <<clients, iterOrder, registered>>
\* The state of the manager and of its backends.
managerVars == <<clients, iterOrder, registered, readers, writer, waiters, pc, call,
                 idx, trace, inner, ret, snap, last, follows, calls, issued,
                 ipfsStore, arweaveStore, submitted>>
\* What the callers of the manager keep: untouched by the manager.
hostVars == <<validations, pipe, sensor, sensorLog, network, netQueue, netLast>>
\* The sensor and the network manager: no part of the manager, of the
\* validator or of the loop touches them.
deviceVars == <<sensor, sensorLog, network, netQueue, netLast>>
\* Nothing is constructed yet.
NoSensor == [sensor_type |-> "none"]
NoNetwork == [max_connections |-> -1]
NoNetCall == [op |-> "none"]
DevicesInit ==
  /\ sensor = NoSensor
  /\ sensorLog = <<>>
  /\ network = NoNetwork
  /\ netQueue = <<>>
  /\ netLast = NoNetCall

Range(s) == {s[i] : i \in 1..Len(s)}

\* ---------------------------------------------------------------- HashMap
\* std::collections::HashMap yields its keys in bucket order, which depends
\* on the keys' hashes (RandomState) and not on the order of insertion.
\* Inserting a new key leaves the keys already present where they are,
\* unless the table grows (at 3 and 7 entries), when all are rehashed.
GrowthLens == {3, 7}

InsertAt(s, i, x) == SubSeq(s, 1, i - 1) \o <<x>> \o SubSeq(s, i, Len(s))

Perms(S) ==
  {f \in [1..Cardinality(S) -> S] : \A i, j \in 1..Cardinality(S) : f[i] = f[j] => i = j}

HashMapInsertOrders(order, name) ==
  IF name \in Range(order) THEN {order}
  ELSE IF Len(order) \in GrowthLens THEN Perms(Range(order) \cup {name})
  ELSE {InsertAt(order, i, name) : i \in 1..(Len(order) + 1)}

\* Variant: a present key keeps its value (entry(name).or_insert(client)).
HashMapInsert_KeepsOld(map, name, client) ==
  [n \in (DOMAIN map) \cup {name} |-> IF n \in DOMAIN map THEN map[n] ELSE client]

\* clients.insert(name, client): a present key keeps its slot and gets the
\* new value.
HashMapInsert(map, name, client) ==
  [n \in (DOMAIN map) \cup {name} |-> IF n = name THEN client ELSE map[n]]

\* ---------------------------------------------------------------- RwLock
\* tokio::sync::RwLock is a fair FIFO semaphore: a read takes one permit, a
\* write takes all of them, and a request queues behind earlier waiters.
CanRead == writer = {} /\ waiters = <<>>
CanWrite == writer = {} /\ readers = {} /\ waiters = <<>>

\* Hand the freed permits to the waiters, in queue order.
RECURSIVE Wake(_, _, _)
Wake(rs, w, q) ==
  IF q = <<>> THEN [readers |-> rs, writer |-> w, waiters |-> q]
  ELSE IF Head(q)[2] = "read" /\ w = {}
       THEN Wake(rs \cup {Head(q)[1]}, w, Tail(q))
  ELSE IF Head(q)[2] = "write" /\ w = {} /\ rs = {}
       THEN Wake(rs, {Head(q)[1]}, Tail(q))
  ELSE [readers |-> rs, writer |-> w, waiters |-> q]

\* Dropping task t's guard.
Release(t) == Wake(readers \ {t}, writer \ {t}, waiters)

\* The position of a task after the lock state became l: a waiter that was
\* granted its guard resumes after the .await.
Resume(l, u, old) ==
  IF old = "wait_read" /\ u \in l.readers THEN "iter"
  ELSE IF old = "wait_write" /\ u \in l.writer THEN "insert"
  ELSE old

\* ---------------------------------------------------------------- clients
\* BlockchainClient::is_available: the outcome of a network probe.
IsAvailableOutcomes(client) == BOOLEAN

\* BlockchainClient::store_data: what the call returns (res) and whether the
\* payload is on the backend afterwards (persisted).
\*  Solana returns the digest and writes nothing.
\*  IPFS fails before the node took the file, or after the node took it
\*   when the pin request fails, or succeeds.
\*  Arweave fails when the gateway refuses the transaction, or succeeds.
StoreOutcomes(client, data) ==
  CASE client.kind = "Solana" ->
         {[res |-> Ok(SolanaHash(data)), persisted |-> FALSE]}
    [] client.kind = "IPFS" ->
         {[res |-> ErrBlockchain("Failed to add data to IPFS"), persisted |-> FALSE],
          [res |-> Ok(IpfsCid(data)), persisted |-> TRUE]}
         \cup (IF client.pin_on_add
               THEN {[res |-> ErrBlockchain("Failed to pin content"), persisted |-> TRUE]}
               ELSE {})
    [] client.kind = "Arweave" ->
         {[res |-> ErrBlockchain("Transaction failed"), persisted |-> FALSE],
          [res |-> Ok(ArweaveTxId(data)), persisted |-> TRUE]}

\* The body a gateway serves for hash: the payload stored under it, if any.
\* byId is the set of <<id, payload>> pairs the backend holds.
Served(byId, hash) ==
  IF \E e \in byId : e[1] = hash
  THEN (CHOOSE e \in byId : e[1] = hash)[2]
  ELSE NotFoundBody

\* BlockchainClient::retrieve_data.
\*  Solana always fails. IPFS and Arweave return the response body whatever
\*  the status, or fail when the request fails.
RetrieveOutcomes(client, hash) ==
  CASE client.kind = "Solana" ->
         IF hash[1] = "solana:"
         THEN {ErrBlockchain("Data retrieval not implemented")}
         ELSE {ErrBlockchain("Invalid Solana hash format")}
    [] client.kind = "IPFS" ->
         {ErrBlockchain("Failed to get data from IPFS"),
          Ok(Served({<<IpfsCid(d), d>> : d \in ipfsStore}, hash))}
    [] client.kind = "Arweave" ->
         {ErrBlockchain("Failed to get data"),
          Ok(Served({<<ArweaveTxId(d), d>> : d \in arweaveStore}, hash))}

\* ---------------------------------------------------------------- manager
\* One call on a client: which client, which method, with what argument, what
\* it returned, and whether it left the payload on the backend.
Event(name, what, arg, res, persisted) ==
  [name |-> name, what |-> what, arg |-> arg, res |-> res, persisted |-> persisted]

Init ==
  /\ clients = [n \in {} |-> SolanaClient]
  /\ iterOrder = <<>>
  /\ registered = <<>>
  /\ readers = {}
  /\ writer = {}
  /\ waiters = <<>>
  /\ pc = [t \in Tasks |-> "idle"]
  /\ call = [t \in Tasks |-> NoCall]
  /\ idx = [t \in Tasks |-> 1]
  /\ trace = [t \in Tasks |-> <<>>]
  /\ inner = [t \in Tasks |-> <<>>]
  /\ ret = [t \in Tasks |-> NoRet]
  /\ snap = [t \in Tasks |-> NoSnap]
  /\ last = NoLast
  /\ follows = [t \in Tasks |-> NoLast]
  /\ calls = 0
  /\ issued = {}
  /\ ipfsStore = {}
  /\ arweaveStore = {}
  /\ submitted = <<>>
  /\ validations = <<>>
  /\ pipe = NoPipe
  /\ DevicesInit

\* Variant: the calls take the registry exclusively, one at a time.
AcquireRead_Exclusive(t) ==
  IF CanWrite
  THEN /\ readers' = readers \cup {t}
       /\ pc' = [pc EXCEPT ![t] = "iter"]
       /\ snap' = [snap EXCEPT ![t] = <<clients, iterOrder>>]
       /\ UNCHANGED <<writer, waiters>>
  ELSE /\ waiters' = Append(waiters, <<t, "read">>)
       /\ pc' = [pc EXCEPT ![t] = "wait_read"]
       /\ UNCHANGED <<readers, writer, snap>>

\* let clients = self.clients.read().await;
AcquireRead(t) ==
  IF CanRead
  THEN /\ readers' = readers \cup {t}
       /\ pc' = [pc EXCEPT ![t] = "iter"]
       /\ snap' = [snap EXCEPT ![t] = <<clients, iterOrder>>]
       /\ UNCHANGED <<writer, waiters>>
  ELSE /\ waiters' = Append(waiters, <<t, "read">>)
       /\ pc' = [pc EXCEPT ![t] = "wait_read"]
       /\ UNCHANGED <<readers, writer, snap>>

\* Variant: the registration excludes other registrations only, not readers.
AcquireWrite_NoWait(t) ==
  IF writer = {}
  THEN /\ writer' = {t}
       /\ pc' = [pc EXCEPT ![t] = "insert"]
       /\ UNCHANGED <<readers, waiters>>
  ELSE /\ waiters' = Append(waiters, <<t, "write">>)
       /\ pc' = [pc EXCEPT ![t] = "wait_write"]
       /\ UNCHANGED <<readers, writer>>

\* let mut clients = self.clients.write().await;
AcquireWrite(t) ==
  IF CanWrite
  THEN /\ writer' = {t}
       /\ pc' = [pc EXCEPT ![t] = "insert"]
       /\ UNCHANGED <<readers, waiters>>
  ELSE /\ waiters' = Append(waiters, <<t, "write">>)
       /\ pc' = [pc EXCEPT ![t] = "wait_write"]
       /\ UNCHANGED <<readers, writer>>

\* The guard of task t is dropped as its call returns; the waiters that get
\* the lock see the registry as it is then.
DropGuard(t, newClients, newOrder) ==
  LET l == Release(t) IN
  /\ readers' = l.readers
  /\ writer' = l.writer
  /\ waiters' = l.waiters
  /\ pc' = [u \in Tasks |-> IF u = t THEN "done" ELSE Resume(l, u, pc[u])]
  /\ snap' = [u \in Tasks |->
                IF u # t /\ pc[u] = "wait_read" /\ u \in l.readers
                THEN <<newClients, newOrder>> ELSE snap[u]]

\* What store_data / retrieve_data hands back to its caller; for
\* submit_contribution, `let hash = self.store_data(&data).await?; Ok(hash)`.
SubmitResult(result) == IF result[1] = "Ok" THEN Ok(result[2]) ELSE result

CallResult(op, result) ==
  IF op = "submit_contribution" THEN SubmitResult(result) ELSE result

\* Variant: only the data hash of the contribution is serialized.
SubmitPayload_HashOnly(c) == <<"json", << <<"sensor_data_hash", c.sensor_data_hash>> >> >>

\* Variant: the serialized record also carries the number of the submission.
SubmitPayload_Numbered(c) == <<"json", Append(to_vec(c)[2], <<"nonce", calls>>)>>

\* The payload submit_contribution stores.
SubmitPayload(c) == to_vec(c)

\* store_data / retrieve_data returns `result` to its caller.
Return(t, result) ==
  /\ DropGuard(t, clients, iterOrder)
  /\ ret' = [ret EXCEPT ![t] = CallResult(call[t].op, result)]
  /\ inner' = [inner EXCEPT ![t] =
                 IF call[t].op = "retrieve_data" THEN @
                 ELSE Append(@, <<call[t].data, result>>)]
  /\ last' = IF call[t].op = "store_data" /\ result[1] = "Ok"
             THEN <<call[t].data, result[2], clients>> ELSE last
  /\ issued' = IF call[t].op # "retrieve_data" /\ result[1] = "Ok"
               THEN issued \cup {result[2]} ELSE issued
  /\ UNCHANGED idx

\* A call returned and its caller has not taken the result yet. There is no
\* .await between a call's return and its caller, so no other task runs
\* in between.
Returned == \E t \in Tasks : pc[t] = "done"

\* A caller starts a call on the manager.
\* Free tasks are interchangeable: the lowest-numbered one takes the call.
StartCall(t) ==
  /\ ~Returned
  /\ pc[t] = "idle"
  /\ \A u \in Tasks : u < t => pc[u] # "idle"
  /\ calls < MaxCalls
  /\ calls' = calls + 1

\* pub async fn store_data(&self, data: &[u8])
StoreDataBegin(t, data) ==
  /\ StartCall(t)
  /\ call' = [call EXCEPT ![t] = [op |-> "store_data", arg |-> data, data |-> data]]
  /\ AcquireRead(t)
  /\ UNCHANGED <<registryVars, idx, trace, inner, ret, last, follows, issued, storeVars>>
  /\ UNCHANGED hostVars

\* pub async fn retrieve_data(&self, hash: &str)
RetrieveDataBegin(t, hash) ==
  /\ StartCall(t)
  /\ call' = [call EXCEPT ![t] = [op |-> "retrieve_data", arg |-> hash, data |-> hash]]
  /\ AcquireRead(t)
  /\ follows' = [follows EXCEPT ![t] = IF last # NoLast /\ last[2] = hash THEN last ELSE NoLast]
  /\ UNCHANGED <<registryVars, idx, trace, inner, ret, last, issued, storeVars>>
  /\ UNCHANGED hostVars

\* pub async fn submit_contribution(&self, contribution: &Contribution)
SubmitContributionBegin(t, c) ==
  /\ StartCall(t)
  /\ call' = [call EXCEPT ![t] =
                [op |-> "submit_contribution", arg |-> c, data |-> SubmitPayload(c)]]
  /\ AcquireRead(t)
  /\ UNCHANGED <<registryVars, idx, trace, inner, ret, last, follows, issued, storeVars>>
  /\ UNCHANGED hostVars

\* Variant: the loop passes over the entry after this one.
NextClient_SkipsOne(t) ==
  /\ idx' = [idx EXCEPT ![t] = @ + 2]
  /\ pc' = [pc EXCEPT ![t] = "iter"]
  /\ UNCHANGED <<lockVars, snap, ret, inner, last, issued>>

\* Variant: the loop tries the same entry again.
NextClient_Retry(t) ==
  /\ idx' = [idx EXCEPT ![t] = @]
  /\ pc' = [pc EXCEPT ![t] = "iter"]
  /\ UNCHANGED <<lockVars, snap, ret, inner, last, issued>>

\* The loop moves on to the next entry of clients.iter().
NextClient(t) ==
  /\ idx' = [idx EXCEPT ![t] = @ + 1]
  /\ pc' = [pc EXCEPT ![t] = "iter"]
  /\ UNCHANGED <<lockVars, snap, ret, inner, last, issued>>

\* Variant: the result of the probe is not looked at.
OnProbe_IgnoresResult(t, name, avail) ==
  /\ trace' = [trace EXCEPT ![t] = Append(@, Event(name, "is_available", <<"none">>, <<"bool", avail>>, FALSE))]
  /\ pc' = [pc EXCEPT ![t] = "call"]
  /\ UNCHANGED <<idx, lockVars, snap, ret, inner, last, issued>>

\* if client.is_available().await { ... }
OnProbe(t, name, avail) ==
  /\ trace' = [trace EXCEPT ![t] = Append(@, Event(name, "is_available", <<"none">>, <<"bool", avail>>, FALSE))]
  /\ IF avail
     THEN /\ pc' = [pc EXCEPT ![t] = "call"]
          /\ UNCHANGED <<idx, lockVars, snap, ret, inner, last, issued>>
     ELSE NextClient(t)

Probe(t) ==
  /\ ~Returned
  /\ pc[t] = "iter"
  /\ idx[t] <= Len(iterOrder)
  /\ \E avail \in IsAvailableOutcomes(clients[iterOrder[idx[t]]]) :
       OnProbe(t, iterOrder[idx[t]], avail)
  /\ UNCHANGED <<registryVars, call, follows, calls, storeVars>>
  /\ UNCHANGED hostVars

\* Variant: the loop does not stop at the first Ok.
OnStoreResult_KeepsGoing(t, res) == NextClient(t)

\* Variant: the first client error is returned to the caller.
OnStoreResult_Propagates(t, res) == Return(t, res)

\* match client.store_data(data).await { Ok(hash) => return Ok(hash), Err(e) => warn }
OnStoreResult(t, res) ==
  IF res[1] = "Ok" THEN Return(t, res) ELSE NextClient(t)

ClientStore(t) ==
  /\ ~Returned
  /\ pc[t] = "call"
  /\ call[t].op \in {"store_data", "submit_contribution"}
  /\ idx[t] <= Len(iterOrder)
  /\ LET name == iterOrder[idx[t]]
         client == clients[name]
     IN \E o \in StoreOutcomes(client, call[t].data) :
          /\ trace' = [trace EXCEPT ![t] = Append(@, Event(name, "store_data", call[t].data, o.res, o.persisted))]
          /\ ipfsStore' = IF client.kind = "IPFS" /\ o.persisted
                          THEN ipfsStore \cup {call[t].data} ELSE ipfsStore
          /\ arweaveStore' = IF client.kind = "Arweave" /\ o.persisted
                             THEN arweaveStore \cup {call[t].data} ELSE arweaveStore
          /\ submitted' = IF call[t].op = "submit_contribution"
                          THEN Append(submitted, <<call[t].arg, client.kind, call[t].data, o.res>>)
                          ELSE submitted
          /\ OnStoreResult(t, o.res)
  /\ UNCHANGED <<registryVars, call, follows, calls>>
  /\ UNCHANGED hostVars

\* Variant: the loop does not stop at the first Ok.
OnRetrieveResult_KeepsGoing(t, res) == NextClient(t)

\* Variant: the first client error is returned to the caller.
OnRetrieveResult_Propagates(t, res) == Return(t, res)

\* match client.retrieve_data(hash).await { Ok(data) => return Ok(data), Err(e) => warn }
OnRetrieveResult(t, res) ==
  IF res[1] = "Ok" THEN Return(t, res) ELSE NextClient(t)

ClientRetrieve(t) ==
  /\ ~Returned
  /\ pc[t] = "call"
  /\ call[t].op = "retrieve_data"
  /\ idx[t] <= Len(iterOrder)
  /\ LET name == iterOrder[idx[t]]
         client == clients[name]
     IN \E res \in RetrieveOutcomes(client, call[t].arg) :
          /\ trace' = [trace EXCEPT ![t] = Append(@, Event(name, "retrieve_data", call[t].arg, res, FALSE))]
          /\ OnRetrieveResult(t, res)
  /\ UNCHANGED <<registryVars, call, follows, calls, storeVars>>
  /\ UNCHANGED hostVars

\* Err(Error::blockchain("No available blockchain clients"))
Exhausted(t) ==
  /\ ~Returned
  /\ pc[t] = "iter"
  /\ idx[t] > Len(iterOrder)
  /\ Return(t, NoAvailableClients)
  /\ UNCHANGED <<registryVars, call, trace, follows, calls, storeVars>>
  /\ UNCHANGED hostVars

\* Keys never used are interchangeable: a new key is the lowest unused one
\* (among the registered and those about to be registered).
UsedNames ==
  Range(registered) \cup {call[u].arg[1] : u \in {v \in Tasks : call[v].op = "add_client"}}

UnusedBefore(name) == \A i \in 1..(name[2] - 1) : <<"name", i>> \in UsedNames

\* pub async fn add_client(&self, name: String, client: Box<dyn BlockchainClient>)
AddClientBegin(t, name, client) ==
  /\ StartCall(t)
  /\ name \in Range(registered) \/ UnusedBefore(name)
  /\ call' = [call EXCEPT ![t] = [op |-> "add_client", arg |-> <<name, client>>, data |-> <<"none">>]]
  /\ AcquireWrite(t)
  /\ UNCHANGED <<registryVars, idx, trace, inner, ret, snap, last, follows, issued, storeVars>>
  /\ UNCHANGED hostVars

\* clients.insert(name, client); and the write guard is dropped.
Insert(t) ==
  /\ ~Returned
  /\ pc[t] = "insert"
  /\ LET name == call[t].arg[1]
         client == call[t].arg[2]
     IN /\ clients' = HashMapInsert(clients, name, client)
        /\ iterOrder' \in HashMapInsertOrders(iterOrder, name)
        /\ registered' = IF name \in Range(registered) THEN registered
                         ELSE Append(registered, name)
        /\ DropGuard(t, clients', iterOrder')
  /\ ret' = [ret EXCEPT ![t] = Ok("unit")]
  /\ UNCHANGED <<call, idx, trace, inner, last, follows, calls, issued, storeVars>>
  /\ UNCHANGED hostVars

\* The caller takes the result; the task is free for its next call.
Take(t) ==
  /\ pc[t] = "done"
  /\ pc' = [pc EXCEPT ![t] = "idle"]
  /\ follows' = [follows EXCEPT ![t] = NoLast]
  /\ call' = [call EXCEPT ![t] = NoCall]
  /\ idx' = [idx EXCEPT ![t] = 1]
  /\ trace' = [trace EXCEPT ![t] = <<>>]
  /\ inner' = [inner EXCEPT ![t] = <<>>]
  /\ ret' = [ret EXCEPT ![t] = NoRet]
  /\ snap' = [snap EXCEPT ![t] = NoSnap]
  /\ UNCHANGED <<registryVars, lockVars, last, calls, issued, storeVars>>

\* A caller that keeps no state of its own takes the result.
Finish(t) ==
  /\ Take(t)
  /\ UNCHANGED hostVars

Next ==
  \E t \in Tasks :
    \/ \E data \in RawPayloads : StoreDataBegin(t, data)
    \/ \E hash \in issued \cup {TestHash} : RetrieveDataBegin(t, hash)
    \/ \E c \in Contributions : SubmitContributionBegin(t, c)
    \/ \E name \in Names, client \in Clients : AddClientBegin(t, name, client)
    \/ Probe(t)
    \/ ClientStore(t)
    \/ ClientRetrieve(t)
    \/ Exhausted(t)
    \/ Insert(t)
    \/ Finish(t)

Spec == Init /\ [][Next]_vars

\* Every probe and every store call on a backend returns, the loop then takes
\* its next step, and a caller takes the result of a call that returned.
BackendsAnswer ==
  \A t \in Tasks :
    /\ WF_vars(Probe(t))
    /\ WF_vars(ClientStore(t))
    /\ WF_vars(Exhausted(t))
    /\ WF_vars(Finish(t))

FairSpec == Spec /\ BackendsAnswer

\* ============================================================= validation
\* src/src/core/validation.rs. An f64 is modelled by the exact rational
\* <<numerator, denominator>> in lowest terms, denominator positive.
\* Longest payload enumerated byte by byte.
MaxLen == 2

RECURSIVE GCD(_, _)
GCD(a, b) == IF b = 0 THEN a ELSE GCD(b, a % b)
Abs(x) == IF x < 0 THEN 0 - x ELSE x
Rat(n, d) ==
  LET g == GCD(Abs(n), Abs(d))
      s == IF d < 0 THEN 0 - 1 ELSE 1
  IN <<(s * n) \div g, (s * d) \div g>>
LCM(a, b) == (a \div GCD(a, b)) * b
RAdd(p, q) ==
  LET l == LCM(p[2], q[2]) IN Rat(p[1] * (l \div p[2]) + q[1] * (l \div q[2]), l)
RNeg(p) == <<0 - p[1], p[2]>>
RSub(p, q) == RAdd(p, RNeg(q))
RMul(p, q) ==
  LET a == Rat(p[1], q[2])
      b == Rat(q[1], p[2])
  IN Rat(a[1] * b[1], a[2] * b[2])
RDiv(p, q) == RMul(p, Rat(q[2], q[1]))
RLe(p, q) ==
  LET l == LCM(p[2], q[2]) IN p[1] * (l \div p[2]) <= q[1] * (l \div q[2])
RLt(p, q) == RLe(p, q) /\ p # q
RMin(p, q) == IF RLe(p, q) THEN p ELSE q
RMax(p, q) == IF RLe(p, q) THEN q ELSE p
F(n) == Rat(n, 1)
powi2(p) == RMul(p, p)

\* iter().map(f).sum::<f64>() over the mapped terms, which are brought to
\* a common denominator and summed as integers, and
\* iter().filter(p).count() over the tests' outcomes.
RECURSIVE SumRange(_, _, _)
SumRange(terms, lo, hi) ==
  IF lo > hi THEN 0
  ELSE IF lo = hi THEN terms[lo]
  ELSE SumRange(terms, lo, (lo + hi) \div 2)
       + SumRange(terms, (lo + hi) \div 2 + 1, hi)
Sum(terms) == SumRange(terms, 1, Len(terms))
Count(hits) == Cardinality({i \in 1..Len(hits) : hits[i]})

\* impl Default for ValidationConfig
DefaultValidationConfig ==
  [min_quality_score |-> Rat(7, 10), enable_anomaly_detection |-> TRUE,
   enable_temporal_consistency |-> TRUE, max_noise_threshold |-> Rat(1, 10)]

\* DataValidator::new() and DataValidator::with_config(config)
DataValidator_new == [config |-> DefaultValidationConfig]
DataValidator_with_config(config) == [config |-> config]

\* Variant: the variance is taken about the mean of the payload.
calculate_noise_level_AboutMean(self, data) ==
  IF data = <<>> THEN F(1)
  ELSE LET n == Len(data)
           total == SumRange(data, 1, n)
           dev2xn2(x) == (n * x - total) * (n * x - total)
           variance == Rat(SumRange([i \in 1..n |-> dev2xn2(data[i])], 1, n), n * n * n)
       IN RMin(RDiv(variance, powi2(Rat(255, 2))), F(1))

\* Variant: an empty payload is taken to be free of noise.
calculate_noise_level_EmptyQuiet(self, data) ==
  IF data = <<>> THEN F(0)
  ELSE LET dev2x4(x) == (2 * x - 255) * (2 * x - 255)
           variance == Rat(SumRange([i \in 1..Len(data) |-> dev2x4(data[i])], 1, Len(data)), 4 * Len(data))
       IN RMin(RDiv(variance, powi2(Rat(255, 2))), F(1))

\* fn calculate_noise_level(&self, data: &[u8]) -> f64
calculate_noise_level(self, data) ==
  IF data = <<>> THEN F(1)
  ELSE LET \* (x - 127.5)^2 = (2x - 255)^2 / 4
           dev2x4(x) == (2 * x - 255) * (2 * x - 255)
           variance == Rat(Sum([i \in 1..Len(data) |-> dev2x4(data[i])]), 4 * Len(data))
       IN RMin(RDiv(variance, powi2(Rat(255, 2))), F(1))

\* fn calculate_completeness(&self, data: &[u8]) -> f64
calculate_completeness(self, data) ==
  IF data = <<>> THEN F(0)
  ELSE LET isNull(x) == x = 0
           null_count == Count([i \in 1..Len(data) |-> isNull(data[i])])
           completeness == RSub(F(1), RDiv(F(null_count), F(Len(data))))
       IN RMax(completeness, F(0))

\* The mean and the variance about the mean of a non-empty payload.
Mean(data) == Rat(Sum(data), Len(data))
Variance(data) ==
  LET n == Len(data)
      total == Sum(data)
      \* (x - mean)^2 = (n x - total)^2 / n^2
      dev2xn2(x) == (n * x - total) * (n * x - total)
  IN Rat(Sum([i \in 1..n |-> dev2xn2(data[i])]), n * n * n)

\* fn calculate_consistency(&self, data: &[u8]) -> f64
calculate_consistency(self, data) ==
  IF Len(data) < 2 THEN F(1)
  ELSE RMax(RSub(F(1), RDiv(Variance(data), powi2(Rat(255, 2)))), F(0))

\* fn calculate_accuracy(&self, data: &[u8]) -> f64
calculate_accuracy(self, data) ==
  IF data = <<>> THEN F(0)
  ELSE LET printable(x) == x >= 32 /\ x <= 126
           valid_count == Count([i \in 1..Len(data) |-> printable(data[i])])
       IN RDiv(F(valid_count), F(Len(data)))

\* async fn calculate_anomaly_score(&self, data: &[u8]) -> Result<f64, Error>
\* (x - mean).abs() > 2.0 * std_dev, compared on the squares.
\* Variant: a byte at exactly two standard deviations counts as an outlier.
calculate_anomaly_score_Inclusive(self, data) ==
  IF Len(data) < 10 THEN F(0)
  ELSE LET mean == Mean(data)
           variance == Variance(data)
           outlier(x) == RLe(RMul(F(4), variance), powi2(RSub(F(x), mean)))
           outliers == Count([i \in 1..Len(data) |-> outlier(data[i])])
       IN RDiv(F(outliers), F(Len(data)))

calculate_anomaly_score(self, data) ==
  IF Len(data) < 10 THEN F(0)
  ELSE LET mean == Mean(data)
           variance == Variance(data)
           outlier(x) == RLt(RMul(F(4), variance), powi2(RSub(F(x), mean)))
           outliers == Count([i \in 1..Len(data) |-> outlier(data[i])])
       IN RDiv(F(outliers), F(Len(data)))

\* Variant: the noise level is capped at the config's max_noise_threshold.
calculate_quality_metrics_NoiseCapped(self, data, metadata) ==
  [noise_level |-> RMin(calculate_noise_level(self, data), self.config.max_noise_threshold),
   completeness |-> calculate_completeness(self, data),
   consistency |-> calculate_consistency(self, data),
   accuracy |-> calculate_accuracy(self, data),
   anomaly_score |-> IF self.config.enable_anomaly_detection
                     THEN calculate_anomaly_score(self, data)
                     ELSE F(0)]

\* async fn calculate_quality_metrics(&self, data, _metadata)
calculate_quality_metrics(self, data, metadata) ==
  [noise_level |-> calculate_noise_level(self, data),
   completeness |-> calculate_completeness(self, data),
   consistency |-> calculate_consistency(self, data),
   accuracy |-> calculate_accuracy(self, data),
   anomaly_score |-> IF self.config.enable_anomaly_detection
                     THEN calculate_anomaly_score(self, data)
                     ELSE F(0)]

\* Variant: the five weights are 0.25.
calculate_quality_score_Quarter(self, metrics) ==
  LET w == Rat(1, 4) IN
  RAdd(RAdd(RAdd(RAdd(RMul(RSub(F(1), metrics.noise_level), w),
                      RMul(metrics.completeness, w)),
                 RMul(metrics.consistency, w)),
            RMul(metrics.accuracy, w)),
       RMul(RSub(F(1), metrics.anomaly_score), w))

\* Variant: the noise level is scored as it is, not as 1 - noise_level.
calculate_quality_score_RawNoise(self, metrics) ==
  LET w == Rat(1, 5) IN
  RAdd(RAdd(RAdd(RAdd(RMul(metrics.noise_level, w),
                      RMul(metrics.completeness, w)),
                 RMul(metrics.consistency, w)),
            RMul(metrics.accuracy, w)),
       RMul(RSub(F(1), metrics.anomaly_score), w))

\* fn calculate_quality_score(&self, metrics: &QualityMetrics) -> f64
calculate_quality_score(self, metrics) ==
  LET weights == [i \in 1..5 |-> Rat(1, 5)]
      scores == <<RSub(F(1), metrics.noise_level), metrics.completeness,
                  metrics.consistency, metrics.accuracy,
                  RSub(F(1), metrics.anomaly_score)>>
      prod(i) == RMul(scores[i], weights[i])
  IN RAdd(RAdd(RAdd(RAdd(prod(1), prod(2)), prod(3)), prod(4)), prod(5))

\* ---------------------------------------------------------------- signature
\* A chrono::DateTime<Utc> within the first minute of the epoch:
\* <<seconds, nanoseconds>>.
Timestamps == {<<0, 0>>, <<0, 1>>, <<1, 0>>}

\* The ASCII codes of the decimal digits of n, written on `width` places.
RECURSIVE Digits(_, _)
Digits(n, width) ==
  IF width = 0 THEN <<>> ELSE Append(Digits(n \div 10, width - 1), 48 + (n % 10))

\* Variant: the timestamp is written to the second (SecondsFormat::Secs).
to_rfc3339_Secs(ts) ==
  <<49, 57, 55, 48, 45, 48, 49, 45, 48, 49, 84, 48, 48, 58, 48, 48, 58>>
  \o Digits(ts[1], 2) \o <<43, 48, 48, 58, 48, 48>>

\* DateTime<Utc>::to_rfc3339(): "1970-01-01T00:00:SS[.fraction]+00:00", the
\* fraction on 3, 6 or 9 places, as many as the nanoseconds need
\* (SecondsFormat::AutoSi), and absent when they are zero.
to_rfc3339(ts) ==
  LET fraction ==
        IF ts[2] = 0 THEN <<>>
        ELSE IF ts[2] % 1000000 = 0 THEN <<46>> \o Digits(ts[2] \div 1000000, 3)
        ELSE IF ts[2] % 1000 = 0 THEN <<46>> \o Digits(ts[2] \div 1000, 6)
        ELSE <<46>> \o Digits(ts[2], 9)
  IN <<49, 57, 55, 48, 45, 48, 49, 45, 48, 49, 84, 48, 48, 58, 48, 48, 58>>
     \o Digits(ts[1], 2) \o fraction \o <<43, 48, 48, 58, 48, 48>>

\* Variant: the validator's threshold is hashed into the signature.
generate_signature_WithConfig(self, data, timestamp) ==
  HexEncode(Sha256(data \o to_rfc3339(timestamp) \o self.config.min_quality_score))

\* fn generate_signature(&self, data, timestamp) -> String:
\* hex(sha256(data || timestamp.to_rfc3339()))
generate_signature(self, data, timestamp) ==
  HexEncode(Sha256(data \o to_rfc3339(timestamp)))

\* ---------------------------------------------------------------- validate
\* The result both entry points build, the threshold being the one of
\* `config`; `timestamp` is what chrono::Utc::now() returned.
ValidationResult(self, data, metadata, config, timestamp) ==
  LET metrics == calculate_quality_metrics(self, data, metadata)
      quality_score == calculate_quality_score(self, metrics)
  IN [quality_score |-> quality_score,
      timestamp |-> timestamp,
      metrics |-> metrics,
      signature |-> generate_signature(self, data, timestamp),
      is_valid |-> RLe(config.min_quality_score, quality_score)]

\* pub async fn validate(&self, data, metadata)
validate(self, data, metadata, timestamp) ==
  Ok(ValidationResult(self, data, metadata, self.config, timestamp))

\* Variant: the threshold is the validator's own, not the supplied one.
validate_with_config_OwnThreshold(self, data, config, timestamp) ==
  Ok(ValidationResult(self, data, {}, self.config, timestamp))

\* pub async fn validate_with_config(&self, data, config)
validate_with_config(self, data, config, timestamp) ==
  Ok(ValidationResult(self, data, {}, config, timestamp))

\* ---------------------------------------------------------------- callers
\* The byte values payloads are enumerated over: a null byte, a printable
\* one ('A') and one that is neither.
ByteSamples == {0, 65, 255}
\* b"AAAAAAAAAAAAAAAAAAAAAAAAAAAAAAAA" of the unit tests: 32 bytes 0x41.
HighQualityData == [i \in 1..32 |-> 65]
\* Ten bytes, long enough for the anomaly detection, one of them far off.
OutlierData == [i \in 1..10 |-> IF i = 10 THEN 255 ELSE 65]
\* One byte repeated: the ends and the middle of the printable range
\* [32, 126], below and at the length where the anomaly detection starts.
RepeatedData == {[i \in 1..n |-> b] : b \in {32, 65, 126}, n \in {1, 10}}
ValPayloads ==
  UNION {[1..n -> ByteSamples] : n \in 0..MaxLen}
    \cup {HighQualityData, OutlierData} \cup RepeatedData

\* A config other than the default: lower threshold, no anomaly detection.
LenientConfig ==
  [min_quality_score |-> Rat(2, 5), enable_anomaly_detection |-> FALSE,
   enable_temporal_consistency |-> FALSE, max_noise_threshold |-> Rat(1, 20)]
\* The default config but for the two fields no function reads.
TunedConfig ==
  [DefaultValidationConfig EXCEPT !.enable_temporal_consistency = FALSE,
                                  !.max_noise_threshold = Rat(1, 20)]
ValidationConfigs == {DefaultValidationConfig, LenientConfig, TunedConfig}
DataValidators ==
  {DataValidator_new, DataValidator_with_config(LenientConfig),
   DataValidator_with_config(TunedConfig)}
\* HashMap<String, String> metadata, as its set of entries.
Metadatas == {{}, {<<"sensor_type", "camera">>}}

\* The results of the two entry points on the enumerated arguments,
\* computed once (@@ turns the function into an explicit table).
ValidateResults ==
  [k \in DataValidators \X ValPayloads \X Metadatas \X Timestamps |->
     validate(k[1], k[2], k[3], k[4])] @@ <<>>
ValidateWithConfigResults ==
  [k \in DataValidators \X ValPayloads \X ValidationConfigs \X Timestamps |->
     validate_with_config(k[1], k[2], k[3], k[4])] @@ <<>>
\* The entry of a table for the arguments a, b, c, d.
Lookup(table, a, b, c, d) == table[<<a, b, c, d>>]

\* The record of one call: the receiver, the arguments, what it returned.
\* The history keeps the latest two calls.
Remember(entry) ==
  IF validations = <<>> THEN <<entry>>
  ELSE <<validations[Len(validations)], entry>>

\* A run validates one payload, again and again. Every history of two calls
\* is reached by two calls, so a run stops there: a third call would only
\* lead to a history already reached.
SamePayload(data) ==
  IF validations = <<>> THEN TRUE
  ELSE Len(validations) = 1 /\ validations[1].data = data

\* validator.validate(data, &metadata).await, the clock reading `timestamp`.
Validate(self, data, metadata, timestamp) ==
  /\ SamePayload(data)
  /\ validations' = Remember([op |-> "validate", self |-> self, data |-> data,
                              metadata |-> metadata, config |-> self.config,
                              result |-> Lookup(ValidateResults, self, data, metadata, timestamp)])
  /\ UNCHANGED <<managerVars, pipe, deviceVars>>

\* validator.validate_with_config(data, &config).await
ValidateWithConfig(self, data, config, timestamp) ==
  /\ SamePayload(data)
  /\ validations' = Remember([op |-> "validate_with_config", self |-> self, data |-> data,
                              metadata |-> {}, config |-> config,
                              result |-> Lookup(ValidateWithConfigResults, self, data, config, timestamp)])
  /\ UNCHANGED <<managerVars, pipe, deviceVars>>

ValNext ==
  \E self \in DataValidators, data \in ValPayloads, timestamp \in Timestamps :
    \/ \E metadata \in Metadatas : Validate(self, data, metadata, timestamp)
    \/ \E config \in ValidationConfigs : ValidateWithConfig(self, data, config, timestamp)

ValSpec == Init /\ [][ValNext]_vars

\* ============================================================== pipeline
\* The data-collection loop of src/examples/advanced_fleet/main.rs and
\* src/examples/basic_robot/main.rs: capture, validate each datum, store the
\* valid ones and submit a Contribution for each stored one. The two loops
\* differ in the number of iterations and in validator_id only.
\* Iterations of the loop (10 in advanced_fleet, 5 in basic_robot).
MaxIterations == 2
\* Data captured in one iteration.
MaxItems == 2

\* The task of main.
Main == 1

\* SensorData handed out by capture_all: a payload the default validator
\* rejects and one it accepts, from two sensors.
SensorDatas ==
  {[sensor_id |-> "robot-camera", data |-> <<>>, metadata |-> {}],
   [sensor_id |-> "robot-camera", data |-> <<65>>, metadata |-> {}],
   [sensor_id |-> "robot-lidar", data |-> <<65>>, metadata |-> {}]}
Captures == UNION {[1..n -> SensorDatas] : n \in 0..MaxItems}

\* What chrono::Utc::now() returns in the loop.
PipeTimestamps == {<<0, 0>>, <<1, 0>>}

\* &data.data as the manager gets it.
Bytes(data) == <<"bytes", data>>

\* The registry the loop runs on. main calls add_client without awaiting
\* it, which leaves the registry empty; the loop is taken on that registry
\* and on those the registrations would build.
PipeRegistries ==
  {[clients |-> [n \in {} |-> SolanaClient], order |-> <<>>],
   [clients |-> [n \in {<<"name", 1>>} |-> SolanaClient], order |-> << <<"name", 1>> >>],
   [clients |-> [n \in {<<"name", 1>>} |-> IPFSClient], order |-> << <<"name", 1>> >>]}

\* The loop at its first iteration; no datum in hand.
PipeStart ==
  [pc |-> "capture", iteration |-> 0, items |-> <<>>, datum |-> <<>>,
   validation |-> <<>>, hash |-> <<>>, contribution |-> <<>>, exit |-> NoRet]

PipeInit ==
  /\ \E r \in PipeRegistries :
       /\ clients = r.clients
       /\ iterOrder = r.order
       /\ registered = r.order
  /\ readers = {}
  /\ writer = {}
  /\ waiters = <<>>
  /\ pc = [t \in Tasks |-> "idle"]
  /\ call = [t \in Tasks |-> NoCall]
  /\ idx = [t \in Tasks |-> 1]
  /\ trace = [t \in Tasks |-> <<>>]
  /\ inner = [t \in Tasks |-> <<>>]
  /\ ret = [t \in Tasks |-> NoRet]
  /\ snap = [t \in Tasks |-> NoSnap]
  /\ last = NoLast
  /\ follows = [t \in Tasks |-> NoLast]
  /\ calls = 0
  /\ issued = {}
  /\ ipfsStore = {}
  /\ arweaveStore = {}
  /\ submitted = <<>>
  /\ validations = <<>>
  /\ pipe = PipeStart
  /\ DevicesInit

\* `?` on an Err: main returns the error.
PipeExit(result) == [pipe EXCEPT !.pc = "exited", !.exit = result]

\* let sensor_data = sensor_manager.capture_all().await?;
PipeCapture(sensor_data) ==
  /\ pipe.pc = "capture"
  /\ pipe.iteration < MaxIterations
  /\ pipe' = [pipe EXCEPT !.pc = "item", !.items = sensor_data]
  /\ UNCHANGED <<managerVars, validations, deviceVars>>

\* The for loop over the iterations is over: Ok(())
PipeComplete ==
  /\ pipe.pc = "capture"
  /\ pipe.iteration = MaxIterations
  /\ pipe' = PipeExit(Ok("unit"))
  /\ UNCHANGED <<managerVars, validations, deviceVars>>

\* Variant: every datum is stored, valid or not.
AfterValidation_StoreAll(validation_result) == "store"

\* if validation_result.is_valid { store ... } else { println!(...) }
AfterValidation(validation_result) ==
  IF validation_result.is_valid THEN "store" ELSE "item"

\* for data in sensor_data { let validation_result =
\*   validator.validate(&data.data, &data.metadata).await?; ... }
PipeValidate(timestamp) ==
  /\ pipe.pc = "item"
  /\ pipe.items # <<>>
  /\ LET data == Head(pipe.items)
         validation_result == validate(DataValidator_new, data.data, data.metadata, timestamp)
     IN pipe' = [pipe EXCEPT !.pc = AfterValidation(validation_result[2]),
                             !.items = Tail(pipe.items),
                             !.datum = <<data>>,
                             !.validation = <<validation_result[2]>>,
                             !.hash = <<>>,
                             !.contribution = <<>>]
  /\ UNCHANGED <<managerVars, validations, deviceVars>>

\* tokio::time::sleep(...).await; and the next iteration.
PipeSleep ==
  /\ pipe.pc = "item"
  /\ pipe.items = <<>>
  /\ pipe' = [pipe EXCEPT !.pc = "capture", !.iteration = @ + 1]
  /\ UNCHANGED <<managerVars, validations, deviceVars>>

\* blockchain_manager.store_data(&data.data) and
\* blockchain_manager.submit_contribution(&contribution): the call starts.
PipeCall ==
  /\ pipe.pc \in {"store", "submit"}
  /\ pc[Main] = "idle"
  /\ IF pipe.pc = "store"
     THEN StoreDataBegin(Main, Bytes(pipe.datum[1].data))
     ELSE SubmitContributionBegin(Main, pipe.contribution[1])

\* Variant: the Contribution carries the signature as its data hash.
NewContribution_SignatureAsHash(hash, validation_result, timestamp, data) ==
  [sensor_data_hash |-> validation_result.signature,
   validator_signature |-> validation_result.signature,
   timestamp |-> timestamp,
   quality_score |-> validation_result.quality_score,
   validator_id |-> "fleet_validator",
   sensor_id |-> data.sensor_id]

\* let contribution = Contribution { sensor_data_hash: hash, ... };
NewContribution(hash, validation_result, timestamp, data) ==
  [sensor_data_hash |-> hash,
   validator_signature |-> validation_result.signature,
   timestamp |-> timestamp,
   quality_score |-> validation_result.quality_score,
   validator_id |-> "fleet_validator",
   sensor_id |-> data.sensor_id]

\* let hash = blockchain_manager.store_data(&data.data).await?; and the
\* Contribution is built, stamped with chrono::Utc::now().
PipeOnStore(timestamp) ==
  /\ pipe.pc = "store"
  /\ pc[Main] = "done"
  /\ pipe' = IF ret[Main][1] = "Ok"
             THEN [pipe EXCEPT !.pc = "submit",
                               !.hash = <<ret[Main][2]>>,
                               !.contribution =
                                  <<NewContribution(ret[Main][2], pipe.validation[1],
                                                    timestamp, pipe.datum[1])>>]
             ELSE PipeExit(ret[Main])
  /\ Take(Main)
  /\ UNCHANGED <<validations, deviceVars>>

\* let tx_hash = blockchain_manager.submit_contribution(&contribution).await?;
PipeOnSubmit ==
  /\ pipe.pc = "submit"
  /\ pc[Main] = "done"
  /\ pipe' = IF ret[Main][1] = "Ok"
             THEN [pipe EXCEPT !.pc = "item"]
             ELSE PipeExit(ret[Main])
  /\ Take(Main)
  /\ UNCHANGED <<validations, deviceVars>>

PipeNext ==
  \/ \E sensor_data \in Captures : PipeCapture(sensor_data)
  \/ PipeComplete
  \/ \E timestamp \in PipeTimestamps : PipeValidate(timestamp)
  \/ PipeSleep
  \/ PipeCall
  \/ Probe(Main)
  \/ ClientStore(Main)
  \/ Exhausted(Main)
  \/ \E timestamp \in PipeTimestamps : PipeOnStore(timestamp)
  \/ PipeOnSubmit

PipeSpec == PipeInit /\ [][PipeNext]_vars

\* ================================================================ sensors
\* src/src/sensors/{camera,lidar,imu,gps,thermal}.rs: one sensor, from its
\* construction on. A captured payload is modelled by its length in bytes.
MaxOps == 3

\* enum SensorType
SensorTypes == {"Camera", "LiDAR", "IMU", "GPS", "Thermal"}
SensorIds == {"test-sensor", "robot-sensor"}

\* Error::sensor(msg)
ErrSensor(msg) == <<"Err", <<"Sensor", msg>>>>

\* CameraConfig, LiDARConfig, IMUConfig, GPSConfig, ThermalConfig: the
\* Default config of each sensor and one other config, by the fields the
\* sensor's methods read.
SensorConfigs(type) ==
  CASE type = "Camera" ->
         {[resolution |-> <<1920, 1080>>, format |-> "RGB"],
          [resolution |-> <<640, 480>>, format |-> "YUV"]}
    [] type = "LiDAR" -> {[point_cloud_format |-> f] : f \in {"XYZI", "XYZ"}}
    [] type = "IMU" ->
         {[magnetometer_enabled |-> b, temperature_compensation |-> b,
           calibration_enabled |-> b] : b \in BOOLEAN}
    [] type = "GPS" -> {[enable_dgps |-> FALSE, enable_rtk |-> b] : b \in BOOLEAN}
    [] type = "Thermal" ->
         {[resolution |-> <<80, 60>>, enable_calibration |-> b,
           calibration_data |-> FALSE] : b \in BOOLEAN}

\* Camera::new, LiDAR::new, IMU::new, GPS::new, Thermal::new.
\* calibration_data is the field of IMU (None at construction).
Sensor_new(type, id, config) ==
  [sensor_type |-> type, id |-> id, config |-> config,
   is_initialized |-> FALSE, calibration_data |-> FALSE]

\* IMU::calibrate, Thermal::calibrate
calibrate(self) ==
  IF self.sensor_type = "IMU" THEN [self EXCEPT !.calibration_data = TRUE]
  ELSE [self EXCEPT !.config.calibration_data = TRUE]

\* Whether initialize calibrates first.
CalibratesOnInit(self) ==
  IF self.sensor_type = "IMU" THEN self.config.calibration_enabled
  ELSE IF self.sensor_type = "Thermal" THEN self.config.enable_calibration
  ELSE FALSE

\* pub async fn initialize(&mut self): the sensor afterwards; it returns Ok(()).
initialize(self) ==
  [(IF CalibratesOnInit(self) THEN calibrate(self) ELSE self)
     EXCEPT !.is_initialized = TRUE]

\* Variant: a new config puts the sensor back into its constructed state.
update_config_Resets(self, config) ==
  [self EXCEPT !.config = config, !.is_initialized = FALSE]

\* pub fn update_config(&mut self, config)
update_config(self, config) == [self EXCEPT !.config = config]

\* impl Sensor: async fn is_available(&self) -> bool
is_available(self) == self.is_initialized

\* The error of the inherent capture of a sensor that is not initialized.
NotInitialized(type) ==
  ErrSensor(CASE type = "Camera" -> "Camera not initialized"
              [] type = "LiDAR" -> "LiDAR not initialized"
              [] type = "IMU" -> "IMU not initialized"
              [] type = "GPS" -> "GPS not initialized"
              [] type = "Thermal" -> "Thermal sensor not initialized")

\* The length of the payload an initialized sensor yields:
\* generate_test_image; serialize_point_cloud of 1000 points;
\* serialize_imu_data; serialize_gps_data; serialize_thermal_data of a map
\* without hot or cold spots.
DataLen(self) ==
  CASE self.sensor_type = "Camera" ->
         self.config.resolution[1] * self.config.resolution[2]
           * (CASE self.config.format = "RGB" -> 3
                [] self.config.format = "RGBA" -> 4
                [] OTHER -> 1)
    [] self.sensor_type = "LiDAR" ->
         1000 * (CASE self.config.point_cloud_format = "XYZ" -> 12
                   [] self.config.point_cloud_format = "XYZI" -> 16
                   [] self.config.point_cloud_format = "XYZRGB" -> 15
                   [] OTHER -> 20)
    [] self.sensor_type = "IMU" ->
         12 + 12 + (IF self.config.magnetometer_enabled THEN 12 ELSE 0)
           + (IF self.config.temperature_compensation THEN 4 ELSE 0) + 8
    [] self.sensor_type = "GPS" -> 48 + 4 + 1 + 8
    [] self.sensor_type = "Thermal" ->
         16 + 4 * self.config.resolution[1] * self.config.resolution[2]
           + 12 + 8 + 8 + 8

\* The inherent capture: Camera::capture, LiDAR::capture, IMU::capture,
\* GPS::capture, Thermal::capture, followed by the serialization.
capture_inherent(self) ==
  IF ~self.is_initialized THEN NotInitialized(self.sensor_type)
  ELSE IF self.sensor_type = "Camera"
          /\ self.config.format \notin {"RGB", "RGBA", "Grayscale"}
       THEN ErrSensor("Unsupported image format")
  ELSE Ok(<<"bytes", DataLen(self)>>)

\* impl Sensor: async fn capture(&mut self) -> Result<SensorData, Error>
capture(self) ==
  LET data == capture_inherent(self)
  IN IF data[1] = "Err" THEN data
     ELSE Ok([sensor_id |-> self.id, sensor_type |-> self.sensor_type,
              data |-> data[2]])

\* One call on the sensor, logged with what it returned.
SensorCall(op, result, after) ==
  /\ sensor # NoSensor
  /\ Len(sensorLog) < MaxOps
  /\ sensor' = after
  /\ sensorLog' = Append(sensorLog, <<op, result>>)
  /\ UNCHANGED <<managerVars, validations, pipe, network, netQueue, netLast>>

SensorNew(type, id, config) ==
  /\ sensor = NoSensor
  /\ sensor' = Sensor_new(type, id, config)
  /\ sensorLog' = <<>>
  /\ UNCHANGED <<managerVars, validations, pipe, network, netQueue, netLast>>

\* sensor.initialize().await
SensorInitialize ==
  /\ sensor # NoSensor
  /\ SensorCall("initialize", Ok("unit"), initialize(sensor))

\* Sensor::capture(&mut sensor).await
SensorCapture ==
  /\ sensor # NoSensor
  /\ SensorCall("capture", capture(sensor), sensor)

SensorUpdateConfig(config) ==
  /\ sensor # NoSensor
  /\ config \in SensorConfigs(sensor.sensor_type)
  /\ SensorCall("update_config", <<"unit">>, update_config(sensor, config))

SensorCalibrate ==
  /\ sensor.sensor_type \in {"IMU", "Thermal"}
  /\ SensorCall("calibrate", Ok("unit"), calibrate(sensor))

SensorNext ==
  \/ \E type \in SensorTypes, id \in SensorIds :
       \E config \in SensorConfigs(type) : SensorNew(type, id, config)
  \/ SensorInitialize
  \/ SensorCapture
  \/ \E config \in UNION {SensorConfigs(type) : type \in SensorTypes} :
       SensorUpdateConfig(config)
  \/ SensorCalibrate

SensorSpec == Init /\ [][SensorNext]_vars

\* ================================================================ network
\* src/src/core/network.rs: one NetworkManager and the calls made on it.
MaxConnections == 2
MaxPending == 2

ConnectionIds == {<<"conn", i>> : i \in 1..(MaxConnections + 1)}
Endpoints == {"tcp://10.0.0.1:9000", "tcp://10.0.0.2:9000"}
\* chrono::Utc::now() when a connection is added.
NetTimestamps == {<<0, 0>>}

\* Error::network(msg)
ErrNetwork(msg) == <<"Err", <<"Network", msg>>>>

\* NetworkManager::new(max_connections)
NetworkManager_new(max_connections) ==
  [connections |-> <<>>, max_connections |-> max_connections]

\* struct Connection, as add_connection builds it.
Connection(id, endpoint, now) ==
  [id |-> id, endpoint |-> endpoint, is_active |-> TRUE, created_at |-> now]

\* connections.len()
ConnectionCount(self) == Cardinality(DOMAIN self.connections)

\* Variant: the limit is checked with > instead of >=.
add_connection_OneMore(self, id, endpoint, now) ==
  IF ConnectionCount(self) > self.max_connections
  THEN [result |-> ErrNetwork("Maximum connections reached"), self |-> self]
  ELSE [result |-> Ok("unit"),
        self |-> [self EXCEPT !.connections =
                    [i \in (DOMAIN self.connections) \cup {id} |->
                       IF i = id THEN Connection(id, endpoint, now)
                       ELSE self.connections[i]]]]

\* pub async fn add_connection(&self, id, endpoint), under the write guard:
\* what it returns and the manager afterwards.
add_connection(self, id, endpoint, now) ==
  IF ConnectionCount(self) >= self.max_connections
  THEN [result |-> ErrNetwork("Maximum connections reached"), self |-> self]
  ELSE [result |-> Ok("unit"),
        self |-> [self EXCEPT !.connections =
                    [i \in (DOMAIN self.connections) \cup {id} |->
                       IF i = id THEN Connection(id, endpoint, now)
                       ELSE self.connections[i]]]]

\* pub async fn remove_connection(&self, id), under the write guard.
remove_connection(self, id) ==
  [result |-> Ok("unit"),
   self |-> [self EXCEPT !.connections =
               [i \in (DOMAIN self.connections) \ {id} |-> self.connections[i]]]]

\* let manager = NetworkManager::new(max_connections)
NetNew(max_connections) ==
  /\ network = NoNetwork
  /\ network' = NetworkManager_new(max_connections)
  /\ UNCHANGED <<managerVars, validations, pipe, sensor, sensorLog, netQueue, netLast>>

\* A task calls add_connection or remove_connection: the call waits for the
\* write guard, which the RwLock hands out in the order of the requests.
NetIssue(c) ==
  /\ network # NoNetwork
  /\ Len(netQueue) < MaxPending
  /\ netQueue' = Append(netQueue, c)
  /\ UNCHANGED <<managerVars, validations, pipe, sensor, sensorLog, network, netLast>>

\* manager.add_connection(id, endpoint)
NetAddConnection(id, endpoint) ==
  /\ network # NoNetwork
  /\ NetIssue([op |-> "add_connection", id |-> id, endpoint |-> endpoint])

\* manager.remove_connection(id)
NetRemoveConnection(id) ==
  /\ network # NoNetwork
  /\ NetIssue([op |-> "remove_connection", id |-> id, endpoint |-> "none"])

\* The first waiting call gets the write guard and runs to its return: the
\* body has no await.
NetRun(now) ==
  /\ netQueue # <<>>
  /\ LET c == Head(netQueue)
         out == IF c.op = "add_connection"
                THEN add_connection(network, c.id, c.endpoint, now)
                ELSE remove_connection(network, c.id)
     IN /\ network' = out.self
        /\ netLast' = [op |-> c.op, id |-> c.id, before |-> network.connections,
                       result |-> out.result]
  /\ netQueue' = Tail(netQueue)
  /\ UNCHANGED <<managerVars, validations, pipe, sensor, sensorLog>>

NetNext ==
  \/ \E max_connections \in 0..MaxConnections : NetNew(max_connections)
  \/ \E id \in ConnectionIds, endpoint \in Endpoints : NetAddConnection(id, endpoint)
  \/ \E id \in ConnectionIds : NetRemoveConnection(id)
  \/ \E now \in NetTimestamps : NetRun(now)

NetSpec == Init /\ [][NetNext]_vars

\* ================================================================ claims
StoreOps == {"store_data", "submit_contribution"}
ReadOps == {"store_data", "submit_contribution", "retrieve_data"}
InFlight(t) == call[t].op \in ReadOps /\ pc[t] \in {"iter", "call"}
Pos(s, x) == CHOOSE i \in 1..Len(s) : s[i] = x
IsProbe(e) == e.what = "is_available"
ProbeSaid(e, b) == IsProbe(e) /\ e.res = <<"bool", b>>
IsClientCall(e) == e.what \in {"store_data", "retrieve_data"}
IsOk(e) == IsClientCall(e) /\ e.res[1] = "Ok"
IsErr(e) == IsClientCall(e) /\ e.res[1] = "Err"

\* C1: within one store_data call the backends are probed in the order in
\* which add_client registered them: when a backend is probed, every backend
\* registered before it has been probed earlier in the same call.
C1_RegistrationOrder ==
  \A t \in Tasks : call[t].op = "store_data" =>
    \A k \in 1..Len(trace[t]) : IsProbe(trace[t][k]) =>
      \A a \in 1..Len(registered) :
        (trace[t][k].name \in Range(registered) /\ a < Pos(registered, trace[t][k].name)) =>
          \E j \in 1..(k - 1) :
            IsProbe(trace[t][j]) /\ trace[t][j].name = registered[a]

\* C2: once a client's store returned Ok(id), the call has returned that id
\* and nothing more is probed or stored in the call.
C2_FirstOkReturns ==
  \A t \in Tasks : call[t].op = "store_data" =>
    \A k \in 1..Len(trace[t]) : IsOk(trace[t][k]) =>
      /\ k = Len(trace[t])
      /\ pc[t] = "done"
      /\ ret[t] = trace[t][k].res

\* A store_data call returned Ok although a later backend was never contacted.
C2_Witness ==
  \E t \in Tasks :
    /\ call[t].op = "store_data" /\ pc[t] = "done" /\ ret[t][1] = "Ok"
    /\ idx[t] < Len(iterOrder)
    /\ IsOk(trace[t][Len(trace[t])])

\* The backend `name` was found unavailable, or its store/retrieve failed.
Failed(t, name) ==
  \E k \in 1..Len(trace[t]) :
    trace[t][k].name = name /\ (ProbeSaid(trace[t][k], FALSE) \/ IsErr(trace[t][k]))

\* C3: store_data returns the aggregate error exactly when every registered
\* backend was unavailable or failed its store in that call (the empty
\* registry included), and returns Ok with an id otherwise.
C3_AggregateIffAllFailed ==
  \A t \in Tasks : (call[t].op = "store_data" /\ pc[t] = "done") =>
    /\ ret[t] = NoAvailableClients <=> \A n \in DOMAIN snap[t][1] : Failed(t, n)
    /\ ret[t] # NoAvailableClients => ret[t][1] = "Ok"

\* A store_data call failed after a client's store returned an error.
C3_Witness ==
  \E t \in Tasks :
    /\ call[t].op = "store_data" /\ pc[t] = "done" /\ ret[t] = NoAvailableClients
    /\ \E k \in 1..Len(trace[t]) : IsErr(trace[t][k])

\* C4: a store_data call never asks a backend to store after an earlier
\* backend contacted in the same call has persisted the payload.
C4_NoDuplicateWrite ==
  \A t \in Tasks : call[t].op = "store_data" =>
    \A k \in 1..Len(trace[t]) : trace[t][k].what = "store_data" =>
      \A j \in 1..(k - 1) : ~trace[t][j].persisted

\* The errors of a request that did not get through to the backend.
TransportErrors ==
  {ErrBlockchain("Failed to get data from IPFS"), ErrBlockchain("Failed to get data")}

\* The backends answered every probe and every request of the call.
Reachable(t) ==
  \A k \in 1..Len(trace[t]) :
    ~ProbeSaid(trace[t][k], FALSE) /\ trace[t][k].res \notin TransportErrors

\* C5: with exactly one backend registered (and reachable), retrieve_data of
\* the id that the store_data(x) just before returned gives back Ok(x).
C5_RoundTrip ==
  \A t \in Tasks :
    ( /\ call[t].op = "retrieve_data" /\ pc[t] = "done"
      /\ follows[t] # NoLast
      /\ Cardinality(DOMAIN follows[t][3]) = 1
      /\ snap[t][1] = follows[t][3]
      /\ Reachable(t) )
    => ret[t] = Ok(follows[t][1])

\* C6: a client's store or retrieve comes right after its own probe said
\* true; a client whose probe said false gets no store/retrieve, and the
\* loop goes on (to the next probe, or to the aggregate error).
C6_CallOnlyIfAvailable ==
  \A t \in Tasks : call[t].op \in ReadOps =>
    \A k \in 1..Len(trace[t]) :
      /\ IsClientCall(trace[t][k]) =>
           /\ k > 1
           /\ ProbeSaid(trace[t][k - 1], TRUE)
           /\ trace[t][k - 1].name = trace[t][k].name
      /\ ProbeSaid(trace[t][k], FALSE) =>
           /\ \A j \in 1..Len(trace[t]) :
                IsClientCall(trace[t][j]) => trace[t][j].name # trace[t][k].name
           /\ k < Len(trace[t]) =>
                IsProbe(trace[t][k + 1]) /\ trace[t][k + 1].name # trace[t][k].name
           /\ k = Len(trace[t]) =>
                pc[t] = "iter" \/ (pc[t] = "done" /\ ret[t] = NoAvailableClients)

\* A call skipped an unavailable client and went on to store on the next.
C6_Witness ==
  \E t \in Tasks :
    /\ call[t].op \in ReadOps
    /\ Len(trace[t]) >= 3
    /\ ProbeSaid(trace[t][1], FALSE)
    /\ ProbeSaid(trace[t][2], TRUE)
    /\ IsClientCall(trace[t][3])

\* C7: the only error store_data / retrieve_data return is the aggregate
\* one; after a client's error the call goes on with the next client.
C7_OnlyAggregateError ==
  \A t \in Tasks : call[t].op \in {"store_data", "retrieve_data"} =>
    /\ (pc[t] = "done" /\ ret[t][1] = "Err") => ret[t] = NoAvailableClients
    /\ \A k \in 1..Len(trace[t]) : IsErr(trace[t][k]) =>
         /\ ret[t] # trace[t][k].res
         /\ k < Len(trace[t]) =>
              IsProbe(trace[t][k + 1]) /\ trace[t][k + 1].name # trace[t][k].name
         /\ k = Len(trace[t]) =>
              pc[t] = "iter" \/ (pc[t] = "done" /\ ret[t] = NoAvailableClients)

\* A retrieve_data call returned the aggregate error after a client failed.
C7_Witness ==
  \E t \in Tasks :
    /\ call[t].op = "retrieve_data" /\ pc[t] = "done" /\ ret[t] = NoAvailableClients
    /\ \E k \in 1..Len(trace[t]) : IsErr(trace[t][k])

\* The clients a call has probed, in the order of the probes.
RECURSIVE ProbedOf(_)
ProbedOf(tr) ==
  IF tr = <<>> THEN <<>>
  ELSE IF IsProbe(Head(tr)) THEN <<Head(tr).name>> \o ProbedOf(Tail(tr))
  ELSE ProbedOf(Tail(tr))

IsPrefix(a, b) == Len(a) <= Len(b) /\ SubSeq(b, 1, Len(a)) = a

\* C8: retrieve_data visits the clients in the order store_data visits them
\* on the same registry, probes each once, returns the bytes of the first
\* available client whose retrieve succeeds without contacting a later one,
\* and fails with the aggregate error exactly when none succeeds.
C8_RetrieveSamePolicy ==
  \A t \in Tasks : call[t].op = "retrieve_data" =>
    /\ \A u \in Tasks :
         (call[u].op = "store_data" /\ snap[u] # NoSnap /\ snap[t] # NoSnap
          /\ snap[u][1] = snap[t][1]) =>
           \/ IsPrefix(ProbedOf(trace[t]), ProbedOf(trace[u]))
           \/ IsPrefix(ProbedOf(trace[u]), ProbedOf(trace[t]))
    /\ snap[t] # NoSnap => IsPrefix(ProbedOf(trace[t]), snap[t][2])
    /\ \A k \in 1..Len(trace[t]) :
         /\ trace[t][k].what # "store_data"
         /\ IsOk(trace[t][k]) =>
              k = Len(trace[t]) /\ pc[t] = "done" /\ ret[t] = trace[t][k].res
    /\ pc[t] = "done" =>
         (ret[t] = NoAvailableClients <=> ~\E k \in 1..Len(trace[t]) : IsOk(trace[t][k]))
    /\ (pc[t] = "done" /\ ret[t] = NoAvailableClients) =>
         Len(ProbedOf(trace[t])) = Len(snap[t][2])

\* A retrieve_data call skipped or failed on no one, got bytes from the
\* client it visited first and left the later client uncontacted.
C8_Witness ==
  \E t \in Tasks :
    /\ call[t].op = "retrieve_data" /\ pc[t] = "done" /\ ret[t][1] = "Ok"
    /\ Len(ProbedOf(trace[t])) < Len(snap[t][2])

\* C9: submit_contribution makes exactly one store_data call, on the
\* serialized contribution, and returns that call's outcome: the id of the
\* client that stored, or the aggregate error; clients are only probed and
\* asked to store those bytes.
C9_SubmitIsOneStore ==
  \A t \in Tasks : call[t].op = "submit_contribution" =>
    /\ Len(inner[t]) <= 1
    /\ \A k \in 1..Len(trace[t]) :
         /\ trace[t][k].what \in {"is_available", "store_data"}
         /\ trace[t][k].what = "store_data" => trace[t][k].arg = to_vec(call[t].arg)
    /\ pc[t] = "done" =>
         /\ Len(inner[t]) = 1
         /\ inner[t][1][1] = to_vec(call[t].arg)
         /\ ret[t] = inner[t][1][2]
         /\ ret[t][1] = "Ok" =>
              /\ trace[t] # <<>>
              /\ trace[t][Len(trace[t])].what = "store_data"
              /\ trace[t][Len(trace[t])].res = ret[t]
         /\ ret[t][1] = "Err" => ret[t] = NoAvailableClients

\* A contribution was submitted and a client stored it.
C9_Witness ==
  \E t \in Tasks :
    /\ call[t].op = "submit_contribution" /\ pc[t] = "done" /\ ret[t][1] = "Ok"
    /\ Len(trace[t]) >= 2

\* C10: while a store_data / retrieve_data call is in flight the registry is
\* the one the call started with: no add_client holds the lock or has
\* changed the registry, it waits for the calls in flight.
C10_RegistryStableInFlight ==
  \A t \in Tasks :
    /\ InFlight(t) => (writer = {} /\ \A u \in Tasks : pc[u] # "insert")
    /\ (InFlight(t) \/ (call[t].op \in ReadOps /\ pc[t] = "done")) =>
         snap[t] = <<clients, iterOrder>>

\* An add_client waits while a call that has probed a client is in flight.
C10_Witness ==
  \E t, u \in Tasks :
    /\ InFlight(t) /\ pc[t] = "call"
    /\ pc[u] = "wait_write"

\* A registration is under way: add_client holds or awaits the write guard.
AddClientPending ==
  \E u \in Tasks : call[u].op = "add_client" /\ pc[u] \in {"wait_write", "insert"}

\* C11: store_data and retrieve_data hold the registry shared: every call
\* past its read().await holds a read guard whatever the other calls do, no
\* write guard is held meanwhile, and a call waits at read().await only
\* while an add_client holds or awaits the write guard.
C11_SharedRead ==
  \A t \in Tasks : call[t].op \in ReadOps =>
    /\ InFlight(t) => t \in readers /\ writer = {}
    /\ pc[t] = "wait_read" => AddClientPending
    /\ ~AddClientPending => pc[t] # "wait_read"

\* Two calls are in flight together: each has probed a backend and neither
\* has got its store/retrieve answered yet.
C11_Witness ==
  \E t, u \in Tasks :
    /\ t # u /\ InFlight(t) /\ InFlight(u)
    /\ {t, u} \subseteq readers
    /\ ~AddClientPending
    /\ Len(trace[t]) >= 1 /\ Len(trace[u]) >= 1
    /\ pc[t] = "call" /\ pc[u] = "call"

\* ---- validation
\* The calls in the history, and what a call returned.
Validated == {validations[i] : i \in 1..Len(validations)}
ResultOf(e) == e.result[2]
InUnit(p) == RLe(F(0), p) /\ RLe(p, F(1))
\* The threshold a call is run with: the validator's for validate, the
\* supplied config's for validate_with_config.
ThresholdOf(e) ==
  IF e.op = "validate" THEN e.self.config.min_quality_score
  ELSE e.config.min_quality_score

\* C12: for every payload (the empty one included) and every config, each
\* of the five metrics and the quality score lies in [0, 1].
C12_UnitInterval ==
  \A e \in Validated :
    /\ e.result[1] = "Ok"
    /\ InUnit(ResultOf(e).metrics.noise_level)
    /\ InUnit(ResultOf(e).metrics.completeness)
    /\ InUnit(ResultOf(e).metrics.consistency)
    /\ InUnit(ResultOf(e).metrics.accuracy)
    /\ InUnit(ResultOf(e).metrics.anomaly_score)
    /\ InUnit(ResultOf(e).quality_score)

\* A payload at the ends of the interval: half nulls, half 0xFF gives the
\* largest noise and the least consistency.
C12_Witness ==
  \E e \in Validated :
    /\ e.data = <<0, 255>>
    /\ ResultOf(e).metrics.noise_level = F(1)
    /\ ResultOf(e).metrics.consistency = F(0)
    /\ ResultOf(e).metrics.accuracy = F(0)

\* C13: is_valid holds exactly when the quality score is at least the
\* min_quality_score the validation was run with, and a score below it
\* gives an Ok result with is_valid = false.
C13_ValidIffThreshold ==
  \A e \in Validated :
    /\ e.result[1] = "Ok"
    /\ ResultOf(e).is_valid <=> RLe(ThresholdOf(e), ResultOf(e).quality_score)

\* The same payload is rejected by validate under the validator's threshold
\* and accepted by validate_with_config under a lower one, which its score
\* just meets.
C13_Witness ==
  /\ Len(validations) = 2
  /\ validations[1].op = "validate" /\ ~ResultOf(validations[1]).is_valid
  /\ RLt(ResultOf(validations[1]).quality_score, ThresholdOf(validations[1]))
  /\ validations[2].op = "validate_with_config" /\ ResultOf(validations[2]).is_valid
  /\ validations[2].self = validations[1].self
  /\ ResultOf(validations[2]).quality_score = validations[2].config.min_quality_score

C15_EmptyPayload ==
  \A e \in Validated : (e.op = "validate" /\ e.data = <<>>) =>
    /\ ResultOf(e).metrics.completeness = F(0)
    /\ ResultOf(e).metrics.accuracy = F(0)
    /\ ResultOf(e).metrics.noise_level = F(1)
    /\ ResultOf(e).metrics.consistency = F(1)
    /\ ResultOf(e).metrics.anomaly_score = F(0)
    /\ ResultOf(e).quality_score = <<2, 5>>
    /\ RLt(ResultOf(e).quality_score, <<1, 2>>)
    /\ e.self.config.min_quality_score = <<7, 10>> => ~ResultOf(e).is_valid

\* The default validator validated the empty payload and rejected it.
C15_Witness ==
  \E e \in Validated :
    /\ e.op = "validate" /\ e.data = <<>> /\ e.self = DataValidator_new
    /\ ~ResultOf(e).is_valid

\* C16: the quality score of a result is 0.2 (1 - noise_level) +
\* 0.2 completeness + 0.2 consistency + 0.2 accuracy + 0.2 (1 - anomaly_score)
\* of the metrics in that result.
C16_ScoreFormula ==
  \A e \in Validated :
    LET m == ResultOf(e).metrics
        fifth(p) == RMul(<<1, 5>>, p)
    IN ResultOf(e).quality_score =
         RAdd(fifth(RSub(F(1), m.noise_level)),
              RAdd(fifth(m.completeness),
                   RAdd(fifth(m.consistency),
                        RAdd(fifth(m.accuracy), fifth(RSub(F(1), m.anomaly_score))))))

\* A result none of whose five metrics is 0 or 1 but completeness.
C16_Witness ==
  \E e \in Validated :
    /\ e.data = OutlierData
    /\ ResultOf(e).metrics.anomaly_score = <<1, 10>>
    /\ ResultOf(e).metrics.accuracy = <<9, 10>>
    /\ RLt(F(0), ResultOf(e).metrics.noise_level)
    /\ RLt(ResultOf(e).metrics.consistency, F(1))

\* C17: the signature depends on the payload and the captured timestamp
\* only: two validations of the same payload with the same timestamp give
\* the same signature whatever the config, the metadata and the validator,
\* and the signature is the hash of the payload followed by the RFC 3339
\* text of the timestamp stored in the same result.
C17_SignatureOfDataAndTime ==
  /\ \A e1, e2 \in Validated :
       (e1.data = e2.data /\ ResultOf(e1).timestamp = ResultOf(e2).timestamp)
         => ResultOf(e1).signature = ResultOf(e2).signature
  /\ \A e \in Validated :
       ResultOf(e).signature = HexEncode(Sha256(e.data \o to_rfc3339(ResultOf(e).timestamp)))

\* Two validators with different configs validated the same payload at the
\* same instant, one through validate with metadata, the other through
\* validate_with_config.
C17_Witness ==
  /\ Len(validations) = 2
  /\ validations[1].op = "validate" /\ validations[1].metadata # {}
  /\ validations[2].op = "validate_with_config"
  /\ validations[1].self # validations[2].self
  /\ validations[2].config # validations[1].self.config
  /\ ResultOf(validations[1]).timestamp = ResultOf(validations[2]).timestamp
  /\ validations[1].data # <<>>

\* C18: two validate calls on the same payload whose captured timestamps
\* differ return different signatures.
C18_DistinctTimesDistinctSignatures ==
  \A e1, e2 \in Validated :
    ( /\ e1.op = "validate" /\ e2.op = "validate"
      /\ e1.data = e2.data
      /\ ResultOf(e1).timestamp # ResultOf(e2).timestamp )
    => ResultOf(e1).signature # ResultOf(e2).signature

\* Two validate calls on one payload, a nanosecond apart.
C18_Witness ==
  /\ Len(validations) = 2
  /\ validations[1].op = "validate" /\ validations[2].op = "validate"
  /\ ResultOf(validations[1]).timestamp = <<0, 0>>
  /\ ResultOf(validations[2]).timestamp = <<0, 1>>

\* ---- pipeline
\* C19: in the data-collection loop, store_data is called for a datum only
\* after its validation said is_valid; a Contribution is built and submitted
\* only after store_data of that datum returned Ok(id), with
\* sensor_data_hash = id and the signature and quality score of that
\* datum's validation; for an invalid datum nothing is stored or submitted.
C19_ValidateStoreSubmit ==
  /\ call[Main].op = "store_data" =>
       /\ pipe.validation # <<>> /\ pipe.validation[1].is_valid
       /\ call[Main].arg = Bytes(pipe.datum[1].data)
       /\ pipe.contribution = <<>>
  /\ pipe.contribution # <<>> =>
       /\ pipe.hash # <<>>
       /\ last # NoLast
       /\ last[1] = Bytes(pipe.datum[1].data) /\ last[2] = pipe.hash[1]
       /\ pipe.validation[1].is_valid
       /\ pipe.contribution[1].sensor_data_hash = pipe.hash[1]
       /\ pipe.contribution[1].validator_signature = pipe.validation[1].signature
       /\ pipe.contribution[1].quality_score = pipe.validation[1].quality_score
       /\ pipe.contribution[1].sensor_id = pipe.datum[1].sensor_id
  /\ call[Main].op = "submit_contribution" =>
       /\ pipe.contribution # <<>>
       /\ call[Main].arg = pipe.contribution[1]
  /\ (pipe.validation # <<>> /\ ~pipe.validation[1].is_valid) =>
       /\ call[Main] = NoCall
       /\ pipe.hash = <<>> /\ pipe.contribution = <<>>
       /\ Bytes(pipe.datum[1].data) \notin ipfsStore \cup arweaveStore

\* A valid datum was stored and the submission of its Contribution
\* returned Ok.
C19_Witness ==
  /\ call[Main].op = "submit_contribution" /\ pc[Main] = "done" /\ ret[Main][1] = "Ok"
  /\ pipe.contribution # <<>>
  /\ pipe.datum[1].sensor_id = "robot-lidar"
  /\ calls = 2

EventsOn(t, name, whats) ==
  {i \in 1..Len(trace[t]) : trace[t][i].name = name /\ trace[t][i].what \in whats}

\* C25: within one store_data or retrieve_data call a backend is probed at
\* most once and its store/retrieve is invoked at most once, and once the
\* call has returned (the aggregate error included) the manager makes no
\* further call on a backend for it.
C25_NoRetry ==
  /\ [](\A t \in Tasks, name \in Names :
          /\ Cardinality(EventsOn(t, name, {"is_available"})) <= 1
          /\ Cardinality(EventsOn(t, name, {"store_data", "retrieve_data"})) <= 1)
  /\ [][\A t \in Tasks :
          pc[t] = "done" => trace'[t] \in {trace[t], <<>>}]_vars

\* A call over two backends ended in the aggregate error: one backend was
\* skipped as unavailable, the other was called and failed.
C25_Witness ==
  \E t \in Tasks :
    /\ pc[t] = "done"
    /\ ret[t] = NoAvailableClients
    /\ \E i, j \in 1..Len(trace[t]) :
         /\ ProbeSaid(trace[t][i], FALSE)
         /\ IsErr(trace[t][j])
         /\ trace[t][i].name # trace[t][j].name

\* ------------------------------------------------------------------- C28
\* The client call e of a call in flight was answered by the backend that
\* is registered under e.name now (a failed retrieve names its backend in
\* the error; an Ok body depends on what the store held at the time).
AnsweredByRegistered(e) ==
  CASE e.what = "store_data" ->
         e.res \in {o.res : o \in StoreOutcomes(clients[e.name], e.arg)}
    [] e.what = "retrieve_data" /\ IsErr(e) ->
         e.res \in RetrieveOutcomes(clients[e.name], e.arg)
    [] OTHER -> TRUE

\* C28: the registry holds one backend per name: add_client under a
\* registered name replaces the earlier backend, the number of registered
\* backends is the number of distinct names used, and the calls made on a
\* name go to the backend registered last.
C28_OneBackendPerName ==
  /\ Cardinality(DOMAIN clients) = Cardinality(Range(registered))
  /\ Len(iterOrder) = Cardinality(DOMAIN clients)
  /\ Range(iterOrder) = DOMAIN clients
  /\ \A t \in Tasks :
       /\ (pc[t] = "done" /\ call[t].op = "add_client")
          => clients[call[t].arg[1]] = call[t].arg[2]
       /\ InFlight(t) =>
            \A e \in Range(trace[t]) : e.name \in DOMAIN clients /\ AnsweredByRegistered(e)

\* add_client returned for a name under which another backend was registered
\* when the latest store_data succeeded; the registry still has one entry.
C28_Witness ==
  \E t \in Tasks :
    /\ pc[t] = "done"
    /\ call[t].op = "add_client"
    /\ last # NoLast
    /\ call[t].arg[1] \in DOMAIN last[3]
    /\ last[3][call[t].arg[1]] # call[t].arg[2]
    /\ Cardinality(DOMAIN clients) = 1

\* ------------------------------------------------------------------- C26
\* The state of the store attempt of task t.
StoreState(t) ==
  IF call[t].op \notin StoreOps THEN <<"None">>
  ELSE IF pc[t] = "done"
       THEN IF ret[t][1] = "Ok" THEN <<"Success", ret[t][2]>>
            ELSE IF ret[t] = NoAvailableClients THEN <<"Exhausted">>
            ELSE <<"Failed">>
  ELSE IF pc[t] \in {"iter", "call"}
       THEN IF idx[t] <= Len(iterOrder) THEN <<"Trying", idx[t]>> ELSE <<"Exhausted">>
  ELSE <<"Waiting">>

\* The client call that moved the attempt of t out of Trying(i).
LastEvent(t) == trace'[t][Len(trace'[t])]

\* One step of the store attempt of task t.
StoreStep(t) ==
  LET s == StoreState(t)
      n == StoreState(t)'
      N == Len(iterOrder)
  IN \/ n = s
     \/ s[1] \in {"None", "Waiting"} /\ n \in {<<"Waiting">>, <<"Trying", 1>>}
     \/ s[1] \in {"None", "Waiting"} /\ n = <<"Exhausted">> /\ N = 0
     \/ /\ s[1] = "Trying"
        /\ n[1] = "Success"
        /\ LastEvent(t).name = iterOrder[s[2]]
        /\ LastEvent(t).what = "store_data"
        /\ LastEvent(t).res = Ok(n[2])
     \/ /\ s[1] = "Trying"
        /\ n = (IF s[2] < N THEN <<"Trying", s[2] + 1>> ELSE <<"Exhausted">>)
        /\ LastEvent(t).name = iterOrder[s[2]]
        /\ ProbeSaid(LastEvent(t), FALSE) \/ IsErr(LastEvent(t))
     \/ s[1] \in {"Success", "Exhausted"} /\ n = <<"None">>

\* C26: a store_data call moves from Trying(backend_i) to Success(id), or on
\* unavailability or store failure to Trying(backend_{i+1}), or from the last
\* backend to Exhausted; Success and Exhausted are terminal; it makes at most
\* N availability probes for N registered backends; and when every probe and
\* store call returns, a call that is trying a backend reaches Success or
\* Exhausted.
C26_StoreStateMachine ==
  /\ [][\A t \in Tasks : StoreStep(t)]_vars
  /\ [](\A t \in Tasks :
          call[t].op \in StoreOps =>
            Cardinality({i \in 1..Len(trace[t]) : IsProbe(trace[t][i])}) <= Len(iterOrder))
  /\ \A t \in Tasks :
       (StoreState(t)[1] = "Trying") ~> (StoreState(t)[1] \in {"Success", "Exhausted"})

\* A store attempt over two backends went Trying(1), Trying(2), Success: the
\* first backend failed the store, the second accepted it.
C26_Witness ==
  \E t \in Tasks :
    /\ StoreState(t)[1] = "Success"
    /\ Len(iterOrder) = 2
    /\ \E i, j \in 1..Len(trace[t]) :
         /\ i < j
         /\ IsErr(trace[t][i]) /\ trace[t][i].name = iterOrder[1]
         /\ IsOk(trace[t][j]) /\ trace[t][j].name = iterOrder[2]

\* ------------------------------------------------------------------- C24
\* C24: anomaly_score is 0 whenever the config the validation is run with
\* (the validator's own for validate, the supplied one for
\* validate_with_config) has enable_anomaly_detection = false, or the
\* payload has fewer than 10 bytes.
C24_AnomalyOffOrShort ==
  \A e \in Validated :
    (~e.config.enable_anomaly_detection \/ Len(e.data) < 10)
    => ResultOf(e).metrics.anomaly_score = F(0)

\* ------------------------------------------------------------------- C27
\* Two configs that differ at most in max_noise_threshold and
\* enable_temporal_consistency.
SameButUnread(c, d) ==
  /\ c.min_quality_score = d.min_quality_score
  /\ c.enable_anomaly_detection = d.enable_anomaly_detection

\* C27: two validations of one payload by the same entry point, whose
\* configs (the validator's and the supplied one) differ only in
\* max_noise_threshold and enable_temporal_consistency, and whose metadata
\* maps may differ, return the same metrics, quality_score and is_valid.
C27_UnreadInputs ==
  \A e, f \in Validated :
    (/\ e.op = f.op
     /\ e.data = f.data
     /\ SameButUnread(e.self.config, f.self.config)
     /\ SameButUnread(e.config, f.config))
    => /\ ResultOf(e).metrics = ResultOf(f).metrics
       /\ ResultOf(e).quality_score = ResultOf(f).quality_score
       /\ ResultOf(e).is_valid = ResultOf(f).is_valid

\* An outlier payload validated twice: by validators whose configs differ in
\* both unread fields, with different metadata maps.
C27_Witness ==
  /\ Len(validations) = 2
  /\ validations[1].op = "validate" /\ validations[2].op = "validate"
  /\ validations[1].data = OutlierData
  /\ validations[1].self.config = DefaultValidationConfig
  /\ validations[2].self.config = TunedConfig
  /\ validations[1].metadata # validations[2].metadata
  /\ ResultOf(validations[1]).metrics.anomaly_score # F(0)

\* ------------------------------------------------------------------- C29
\* A non-empty payload made of one printable byte repeated.
RepeatedPrintable(data) ==
  /\ Len(data) >= 1
  /\ data[1] >= 32 /\ data[1] <= 126
  /\ \A i \in 1..Len(data) : data[i] = data[1]

\* C29: for a non-empty payload of one byte of [32, 126] repeated, validate
\* yields completeness 1, consistency 1, accuracy 1 and anomaly_score 0, so a
\* quality_score of at least 0.8, and the payload is valid under the default
\* threshold 0.7.
C29_RepeatedPrintable ==
  \A e \in Validated :
    (e.op = "validate" /\ RepeatedPrintable(e.data))
    => /\ ResultOf(e).metrics.completeness = F(1)
       /\ ResultOf(e).metrics.consistency = F(1)
       /\ ResultOf(e).metrics.accuracy = F(1)
       /\ ResultOf(e).metrics.anomaly_score = F(0)
       /\ RLe(Rat(4, 5), ResultOf(e).quality_score)
       /\ e.self.config.min_quality_score = Rat(7, 10) => ResultOf(e).is_valid

\* The default validator validated ten spaces: the printable byte with the
\* largest noise, at a length where the anomaly detection runs.
C29_Witness ==
  \E e \in Validated :
    /\ e.op = "validate"
    /\ e.self = DataValidator_new
    /\ e.data = [i \in 1..10 |-> 32]
    /\ ResultOf(e).is_valid
    /\ RLt(ResultOf(e).quality_score, Rat(9, 10))

\* ------------------------------------------------------------------- C22
\* The calls made on the sensor before its i-th call include no initialize.
NotInitializedBefore(i) == \A j \in 1..(i - 1) : sensorLog[j][1] # "initialize"

\* C22: capture through the Sensor interface on a newly constructed sensor,
\* with no prior initialize, succeeds and returns SensorData carrying the
\* sensor's id, its sensor type and a non-empty payload.
C22_CaptureWithoutInitialize ==
  \A i \in 1..Len(sensorLog) :
    (sensorLog[i][1] = "capture" /\ NotInitializedBefore(i))
    => /\ sensorLog[i][2][1] = "Ok"
       /\ sensorLog[i][2][2].sensor_id = sensor.id
       /\ sensorLog[i][2][2].sensor_type = sensor.sensor_type
       /\ sensorLog[i][2][2].data[2] > 0

\* ------------------------------------------------------------------- C23
\* An initialize call on the sensor has completed successfully.
InitializeCompleted ==
  \E i \in 1..Len(sensorLog) : sensorLog[i] = <<"initialize", Ok("unit")>>

\* C23: a sensor reports is_available() = false from its construction until
\* an initialize call has completed successfully, and true in every state
\* after that, whatever capture, update_config or calibrate calls follow.
C23_AvailableIffInitialized ==
  sensor # NoSensor => (is_available(sensor) <=> InitializeCompleted)

\* A sensor was initialized, then given a new config, then captured from, and
\* is available.
C23_Witness ==
  /\ Len(sensorLog) = 3
  /\ sensorLog[1][1] = "initialize"
  /\ sensorLog[2][1] = "update_config"
  /\ sensorLog[3][1] = "capture"
  /\ sensorLog[3][2][1] = "Ok"
  /\ is_available(sensor)

====
